---- MODULE Spec2Model ----
(***************************************************************************)
(* hyperspy/io_plugins/image.py: the image import/export plugin.           *)
(*                                                                         *)
(* file_writer and file_reader are modelled as operators translated from   *)
(* the source statement by statement; the actions below call them on       *)
(* inputs drawn from small sets and keep the observable outcome of the     *)
(* call (delegate calls made, error raised, objects mutated) in the state. *)
(*                                                                         *)
(* Python dictionaries are sets of <<key, value>> pairs with string        *)
(* values; Python's None and traits' Undefined are the strings below.      *)
(***************************************************************************)
EXTENDS Integers, Naturals, Sequences, FiniteSets, TLC

VARIABLES
    scalebar_lib,   \* whether `from matplotlib_scalebar.scalebar import ScaleBar` succeeds
    caller_kwds,    \* the caller's own scalebar_kwds dictionary object, reused across calls
    wcall,          \* the last file_writer call: its arguments and what it did; NoCall when idle
    disk,           \* the pixel array the codec decodes from the file being read
    rcall,          \* the last file_reader call: its options and what it did; NoCall when idle
    accesses        \* decodes run by the deferred node after file_reader returned

vars == <<scalebar_lib, caller_kwds, wcall, disk, rcall, accesses>>

Undefined == "Undefined"
NoCall == [op |-> "none"]
NoError == "ok"

-----------------------------------------------------------------------------
(* Dictionaries *)

DictKeys(d) == {p[1] : p \in d}

DictGet(d, k, default) ==
    IF k \in DictKeys(d) THEN (CHOOSE p \in d : p[1] = k)[2] ELSE default

\* d[k] = v
DictSet(d, k, v) == {p \in d : p[1] # k} \cup {<<k, v>>}

\* d.pop(k, default): <<value, remaining dictionary>>
DictPop(d, k, default) == <<DictGet(d, k, default), {p \in d : p[1] # k}>>

-----------------------------------------------------------------------------
(* Bounds and input sets of the writer *)

MaxAxes == 2

dpi == 100

\* Axis descriptors (scale, units, size) the signals are built from.
AxU16 == [scale |-> 1, units |-> Undefined, size |-> 16]
AxN29 == [scale |-> 1, units |-> "nm", size |-> 29]
AxN16 == [scale |-> 1, units |-> "nm", size |-> 16]
AxM16 == [scale |-> 2, units |-> "nm", size |-> 16]
AxR16 == [scale |-> 1, units |-> "1/nm", size |-> 16]

AxisPairs ==
    { <<AxU16, AxU16>>, <<AxN29, AxN16>>, <<AxR16, AxR16>>,
      <<AxN16, AxM16>>, <<AxU16, AxN16>> }

\* n axes: the pair's first axis, then its second axis repeated
AxesOf(p, n) == [i \in 1..n |-> IF i = 1 THEN p[1] ELSE p[2]]

Signals ==
    { [signal_axes |-> AxesOf(p, ns), navigation_axes |-> AxesOf(q, nn)] :
        p \in AxisPairs, q \in AxisPairs, ns \in 0..MaxAxes, nn \in 0..MaxAxes }

\* File names as sequences of name pieces and "." separators.
Filenames ==
    { <<"img", ".", "png">>, <<"img", ".", "bmp">>, <<"img", ".", "png", ".", "gif">>,
      <<"img", ".", "bmp", ".", "jpg">>, <<"img">> }

\* output_size: None, a single number, or a pair (kind, with the numbers in v).
OutputSizes ==
    { [kind |-> "None", v |-> <<>>], [kind |-> "int", v |-> <<29>>],
      [kind |-> "int", v |-> <<32>>], [kind |-> "list", v |-> <<32, 16>>] }

\* scalebar_kwds: None, or the caller's dictionary object (its content in d).
NoKwds == [kind |-> "None", d |-> {}]
TheDict(d) == [kind |-> "dict", d |-> d]

\* The options the caller keeps in its own scalebar_kwds dictionary.
CallerOptions == { <<"location", "lower right">> }

\* **kwds of file_writer
WriterKwds == { {}, { <<"quality", "100">> } }

-----------------------------------------------------------------------------
(* Delegates of the writer *)

\* fig.canvas.get_supported_filetypes(): png and jpg are rasterizer outputs,
\* bmp and gif are not (tests, test_export_scalebar).
SupportedFiletypes ==
    { "eps", "jpeg", "jpg", "pdf", "pgf", "png", "ps", "raw", "rgba",
      "svg", "svgz", "tif", "tiff" }

\* _ureg.Quantity(units).check('1/[length]')
ReciprocalLengthUnits == { "1/nm", "1/um", "1/m" }

IsReciprocalLength(units) == units \in ReciprocalLengthUnits

-----------------------------------------------------------------------------
(* Double-precision arithmetic of `size / dpi` and of the canvas width      *)
(* `figsize * dpi`, computed exactly with small integers.                   *)
(*                                                                         *)
(* The double nearest to n/d has the 53-bit mantissa q = (n*2^k + adj)/d,   *)
(* where 2^52 <= q < 2^53 fixes k and adj is the rounding, -d/2 <= adj <=   *)
(* d/2.  The record [n, d, e, adj] stands for that double, e = 52 - k being *)
(* its binary exponent, so its exact value is (n + adj/2^k)/d.              *)

RECURSIVE Pow2(_)
Pow2(k) == IF k = 0 THEN 1 ELSE 2 * Pow2(k - 1)

RECURSIVE Pow2Mod(_, _)
Pow2Mod(k, m) == IF k = 0 THEN 1 % m ELSE (2 * Pow2Mod(k - 1, m)) % m

\* the e with 2^e <= n/d < 2^(e+1), for n, d >= 1
RECURSIVE ExpUp(_, _, _)
ExpUp(n, d, e) == IF d * Pow2(e + 1) <= n THEN ExpUp(n, d, e + 1) ELSE e
RECURSIVE ExpDown(_, _, _)
ExpDown(n, d, j) == IF n * Pow2(j) < d THEN ExpDown(n, d, j + 1) ELSE j
FloorLog2(n, d) == IF n >= d THEN ExpUp(n, d, 0) ELSE 0 - ExpDown(n, d, 1)

\* size / dpi (true division of Python numbers, the result a double)
TrueDiv(n, d) ==
    IF n = 0 THEN [n |-> 0, d |-> d, e |-> 0, adj |-> 0]
    ELSE
    LET e == FloorLog2(n, d)
        k == 52 - e
        r == ((n % d) * Pow2Mod(k, d)) % d                  \* n*2^k mod d
        q0odd == ((((n % (2 * d)) * Pow2Mod(k, 2 * d)) + 2 * d - r) % (2 * d)) \div d
        adj == IF 2 * r < d THEN 0 - r
               ELSE IF 2 * r > d THEN d - r
               ELSE IF q0odd = 0 THEN 0 - r ELSE d - r      \* tie: to even
    IN [n |-> n, d |-> d, e |-> e, adj |-> adj]

\* int(inches * dots): the canvas extent in pixels that fig.savefig gives a
\* figure extent `inches` (a double made by TrueDiv) at density `dots` (the
\* Agg canvas truncates the bounding box of the figure); file_writer
\* exports at the density it divided by, dots = inches.d.  The exact product
\* is n + adj/2^k; it is rounded to a double, whose spacing around n is
\* U/2^k (half of it below a power of two), and then truncated.
CanvasPixels(inches, dots) ==
    LET n == inches.n
        en == FloorLog2(n, 1)
        U == Pow2(en - inches.e)
        half == IF n = Pow2(en) THEN U \div 4 ELSE U \div 2
    IN IF n = 0 \/ inches.adj >= 0 THEN n
       ELSE IF 0 - inches.adj > half THEN n - 1 ELSE n

-----------------------------------------------------------------------------
(* file_writer *)

GeometryError == "Data not compatible with saving scale bar."
FormatScalebarError == "Exporting image with scalebar is supported only with ..."
FormatSizeError == "Setting the output size is only supported with ..."
CalibrationError == "Scale and units must be the same for each axes to export images with a scale bar."
ScalebarWarning == "Exporting image with scalebar requires the matplotlib-scalebar library."

\* scalebar_kwds = dict(box_alpha=0.75, location='lower left')
DefaultScalebarKwds == { <<"box_alpha", "0.75">>, <<"location", "lower left">> }

\* truth value of output_size in `if scalebar or output_size`
Truthy(output_size) ==
    CASE output_size.kind = "None" -> FALSE
      [] output_size.kind = "int"  -> output_size.v[1] # 0
      [] OTHER                     -> Len(output_size.v) > 0

\* (variant: output_size alone does not select the figure)
UsesFigure_ScalebarOnly(scalebar, output_size) == scalebar

\* `if scalebar or output_size:` -- the figure is used
UsesFigure(scalebar, output_size) == scalebar \/ Truthy(output_size)

\* the value of `scalebar` after the import attempt
ImportScaleBar(scalebar, lib) == IF scalebar THEN lib ELSE FALSE

\* (variant: the navigation axes are tried first)
SelectAxes_NavigationFirst(signal) ==
    IF Len(signal.navigation_axes) = 2
    THEN [ok |-> TRUE, axes |-> signal.navigation_axes]
    ELSE IF Len(signal.signal_axes) = 2
    THEN [ok |-> TRUE, axes |-> signal.signal_axes]
    ELSE [ok |-> FALSE, axes |-> <<>>]

\* the axis pair, or failure
SelectAxes(signal) ==
    IF Len(signal.signal_axes) = 2
    THEN [ok |-> TRUE, axes |-> signal.signal_axes]
    ELSE IF Len(signal.navigation_axes) = 2
    THEN [ok |-> TRUE, axes |-> signal.navigation_axes]
    ELSE [ok |-> FALSE, axes |-> <<>>]

\* output_size as a list of two numbers
ResolveOutputSize(output_size, axes) ==
    CASE output_size.kind = "None" -> [i \in 1..Len(axes) |-> axes[i].size]
      [] output_size.kind = "int"  -> <<output_size.v[1], output_size.v[1]>>
      [] OTHER                     -> output_size.v

\* os.path.splitext(filename)[1]: from the last "." on, when a name piece
\* precedes it; else empty
RECURSIVE LastDot(_, _)
LastDot(filename, i) ==
    IF i = 0 THEN 0 ELSE IF filename[i] = "." THEN i ELSE LastDot(filename, i - 1)

RECURSIVE FirstDot(_, _)
FirstDot(filename, i) ==
    IF i > Len(filename) THEN 0
    ELSE IF filename[i] = "." THEN i ELSE FirstDot(filename, i + 1)

\* (variant: the extension starts at the first "." of the name)
Splitext_FirstDot(filename) ==
    LET i == FirstDot(filename, 1)
    IN IF i > 1 THEN SubSeq(filename, i, Len(filename)) ELSE <<>>

Splitext(filename) ==
    LET i == LastDot(filename, Len(filename))
    IN IF i > 1 /\ \E j \in 1..(i - 1) : filename[j] # "."
       THEN SubSeq(filename, i, Len(filename)) ELSE <<>>

\* os.path.splitext(filename)[1].replace('.', '') in supported_format
FormatSupported(filename) ==
    LET ext == SelectSeq(Splitext(filename), LAMBDA c : c # ".")
    IN Len(ext) = 1 /\ ext[1] \in SupportedFiletypes

\* (variant: the units are not compared)
AxesMismatch_ScaleOnly(axes) == axes[1].scale # axes[2].scale

\* axes[0].scale != axes[1].scale or axes[0].units != axes[1].units
AxesMismatch(axes) ==
    axes[1].scale # axes[2].scale \/ axes[1].units # axes[2].units

\* the ScaleBar(axis.scale, units, **scalebar_kwds) call and the dictionary
\* it leaves behind
MakeScaleBar(axes, kw) ==
    LET axis == axes[1]
        undefined == axis.units = Undefined
        units == IF undefined THEN "px" ELSE axis.units
        kw1 == IF undefined THEN DictSet(kw, "dimension", "pixel-length") ELSE kw
        kw2 == IF IsReciprocalLength(units)
               THEN DictSet(kw1, "dimension", "si-length-reciprocal") ELSE kw1
    IN [artist |-> [dx |-> axis.scale, units |-> units, kwds |-> kw2], kwds |-> kw2]

\* The whole call.  The result records the exception raised (NoError on a
\* normal return), the warnings logged, the calls made to imwrite and to
\* fig.savefig, the artists added to the figure, the axis pair chosen, the local `scalebar` after
\* the import attempt and the scalebar_kwds dictionary as the call leaves it.
file_writer(filename, signal, scalebar, scalebar_kwds, output_size, kwds, lib) ==
    LET kw0 == IF scalebar_kwds.kind = "None" THEN DefaultScalebarKwds
               ELSE scalebar_kwds.d
        sb == ImportScaleBar(scalebar, lib)
        base == [error |-> NoError,
                 warnings |-> IF scalebar /\ ~sb THEN <<ScalebarWarning>> ELSE <<>>,
                 scalebar |-> sb,
                 axes |-> <<>>,
                 imwrite |-> <<>>, savefig |-> <<>>, artists |-> <<>>,
                 scalebar_kwds |-> kw0]
        sel == SelectAxes(signal)
        size == ResolveOutputSize(output_size, sel.axes)
        figsize == [i \in 1..Len(size) |-> TrueDiv(size[i], dpi)]
        bar == MakeScaleBar(sel.axes, kw0)
        export == [filename |-> filename, dpi |-> dpi, pil_kwargs |-> kwds,
                   figsize |-> figsize,
                   pixels |-> [i \in 1..Len(figsize) |-> CanvasPixels(figsize[i], dpi)]]
    IN IF ~UsesFigure(sb, output_size)
       THEN [base EXCEPT !.imwrite = <<[filename |-> filename, kwds |-> kwds]>>]
       ELSE IF ~sel.ok
       THEN [base EXCEPT !.error = GeometryError]
       ELSE IF ~FormatSupported(filename) /\ sb
       THEN [base EXCEPT !.axes = sel.axes, !.error = FormatScalebarError]
       ELSE IF ~FormatSupported(filename) /\ Len(size) > 0
       THEN [base EXCEPT !.axes = sel.axes, !.error = FormatSizeError]
       ELSE IF sb /\ AxesMismatch(sel.axes)
       THEN [base EXCEPT !.axes = sel.axes, !.error = CalibrationError]
       ELSE IF sb
       THEN [base EXCEPT !.axes = sel.axes, !.artists = <<bar.artist>>,
                         !.scalebar_kwds = bar.kwds, !.savefig = <<export>>]
       ELSE [base EXCEPT !.axes = sel.axes, !.savefig = <<export>>]

-----------------------------------------------------------------------------
(* Pixel arrays: shape, element type and the elements in row-major order *)

MaxWidth == 2

PixelValues == {0, 1}

\* 256^i
RECURSIVE ByteBase(_)
ByteBase(i) == IF i = 0 THEN 1 ELSE 256 * ByteBase(i - 1)

Size(shape) == IF Len(shape) = 2 THEN shape[1] * shape[2]
               ELSE shape[1] * shape[2] * shape[3]

ArraysOf(shape) ==
    { [shape |-> shape, dtype |-> "uint8", elems |-> e] :
        e \in [1..Size(shape) -> PixelValues] }

\* What the codec can decode: grayscale (h, w), RGB (h, w, 3), RGBA (h, w, 4).
DecodedArrays ==
    UNION { ArraysOf(<<1, w>>) \cup ArraysOf(<<1, w, 3>>) \cup ArraysOf(<<1, w, 4>>) :
              w \in 1..MaxWidth }

\* dc[:, :, c]
Channel(dc, c) ==
    [shape |-> <<dc.shape[1], dc.shape[2]>>, dtype |-> dc.dtype,
     elems |-> [p \in 1..(dc.shape[1] * dc.shape[2]) |->
                  dc.elems[(p - 1) * dc.shape[3] + c + 1]]]

\* (a == b).all()
AllEqual(a, b) == \A p \in 1..Len(a.elems) : a.elems[p] = b.elems[p]

\* the composite value of pixel p: its first c samples, one byte each
RECURSIVE Packed(_, _, _)
Packed(dc, p, c) ==
    IF c = 0 THEN 0
    ELSE dc.elems[(p - 1) * dc.shape[3] + c] * ByteBase(c - 1) + Packed(dc, p, c - 1)

\* rgb_tools.regular_array2rgbx(dc): one composite value per pixel
regular_array2rgbx(dc) ==
    [shape |-> <<dc.shape[1], dc.shape[2]>>,
     dtype |-> IF dc.shape[3] = 3 THEN "rgb8" ELSE "rgba8",
     elems |-> [p \in 1..(dc.shape[1] * dc.shape[2]) |->
                  Packed(dc, p, dc.shape[3])]]

-----------------------------------------------------------------------------
(* file_reader *)

ReadFilename == <<"img", ".", "png">>

\* **kwds of file_reader
ReaderKwds ==
    { {}, { <<"lazy", "True">> }, { <<"lazy", "False">> },
      { <<"pilmode", "L">>, <<"as_grey", "True">> },
      { <<"lazy", "True">>, <<"pilmode", "L">>, <<"as_grey", "True">> },
      { <<"lazy", "False">>, <<"pilmode", "L">> } }

\* imread(filename, **options): the decode of the file's content, with the
\* call as the codec sees it
imread(content, filename, options) ==
    [call |-> [filename |-> filename, kwds |-> options], dc |-> content]

\* (variant: all three colour channels are compared)
Collapse_AllChannels(dc) ==
    IF Len(dc.shape) > 2
    THEN IF AllEqual(Channel(dc, 0), Channel(dc, 1))
            /\ AllEqual(Channel(dc, 1), Channel(dc, 2))
         THEN Channel(dc, 0)
         ELSE regular_array2rgbx(dc)
    ELSE dc

\* the grayscale collapse of _read_data
Collapse(dc) ==
    IF Len(dc.shape) > 2
    THEN IF AllEqual(Channel(dc, 1), Channel(dc, 2))
            /\ AllEqual(Channel(dc, 1), Channel(dc, 2))
         THEN Channel(dc, 0)
         ELSE regular_array2rgbx(dc)
    ELSE dc

\* _read_data(filename, **kwds): the codec calls it makes and what it returns
_read_data(content, filename, kwds) ==
    LET got == imread(content, filename, {})
    IN [imread |-> <<got.call>>, dc |-> Collapse(got.dc)]

NoNode == [func |-> "none", filename |-> <<>>, kwds |-> {}]
NoArray == [shape |-> <<>>, dtype |-> "none", elems |-> <<>>]

\* delayed(_read_data, pure=True)(filename)
Delayed(filename) == [func |-> "_read_data", filename |-> filename, kwds |-> {}]

\* running a deferred node
Compute(content, node) == _read_data(content, node.filename, node.kwds)

\* (variant: the deferred node is run while the call builds it)
file_reader_ComputesNode(content, filename, kwds) ==
    LET first == _read_data(content, filename, kwds)
        lazy == DictPop(kwds, "lazy", "False")[1] = "True"
        again == Compute(content, Delayed(filename))
        data == IF lazy
                THEN [kind |-> "dask", node |-> Delayed(filename), array |-> NoArray,
                      shape |-> again.dc.shape, dtype |-> again.dc.dtype]
                ELSE [kind |-> "ndarray", node |-> NoNode, array |-> first.dc,
                      shape |-> first.dc.shape, dtype |-> first.dc.dtype]
    IN [imread |-> IF lazy THEN first.imread \o again.imread ELSE first.imread,
        returned |-> << [data |-> data,
                         metadata |-> [original_filename |-> filename,
                                       signal_type |-> "", record_by |-> "image"]] >>]

\* The whole call: the codec calls made during it, and the returned list.
file_reader(content, filename, kwds) ==
    LET first == _read_data(content, filename, kwds)
        lazy == DictPop(kwds, "lazy", "False")[1] = "True"
        data == IF lazy
                THEN [kind |-> "dask", node |-> Delayed(filename), array |-> NoArray,
                      shape |-> first.dc.shape, dtype |-> first.dc.dtype]
                ELSE [kind |-> "ndarray", node |-> NoNode, array |-> first.dc,
                      shape |-> first.dc.shape, dtype |-> first.dc.dtype]
    IN [imread |-> first.imread,
        returned |-> << [data |-> data,
                         metadata |-> [original_filename |-> filename,
                                       signal_type |-> "", record_by |-> "image"]] >>]

-----------------------------------------------------------------------------
(* The program: one call at a time (single-threaded, synchronous).  A call  *)
(* is one step; its outcome stays in wcall / rcall until the caller goes on *)
(* to its next call.  A lazily read array may be accessed while the caller  *)
(* holds it.                                                                *)

MaxAccess == 2

Idle == wcall.op = "none" /\ rcall.op = "none"

DefaultDisk == [shape |-> <<1, 1>>, dtype |-> "uint8", elems |-> <<0>>]

FileWriter ==
    /\ Idle
    /\ \E filename \in Filenames, signal \in Signals, scalebar \in BOOLEAN,
          own \in BOOLEAN, output_size \in OutputSizes, kwds \in WriterKwds :
          LET scalebar_kwds == IF own THEN TheDict(caller_kwds) ELSE NoKwds
              res == file_writer(filename, signal, scalebar, scalebar_kwds,
                                 output_size, kwds, scalebar_lib)
          IN /\ wcall' = [op |-> "file_writer", filename |-> filename,
                          signal |-> signal, scalebar |-> scalebar,
                          scalebar_kwds |-> scalebar_kwds,
                          output_size |-> output_size, kwds |-> kwds, res |-> res]
             \* the dictionary is passed by reference
             /\ caller_kwds' = IF own THEN res.scalebar_kwds ELSE caller_kwds
    /\ UNCHANGED <<scalebar_lib, disk, rcall, accesses>>

WriterIdle ==
    /\ wcall.op = "file_writer"
    /\ wcall' = NoCall
    /\ UNCHANGED <<scalebar_lib, caller_kwds, disk, rcall, accesses>>

FileReader ==
    /\ Idle
    /\ \E kwds \in ReaderKwds :
          rcall' = [op |-> "file_reader", filename |-> ReadFilename, kwds |-> kwds,
                    res |-> file_reader(disk, ReadFilename, kwds)]
    /\ accesses' = <<>>
    /\ UNCHANGED <<scalebar_lib, caller_kwds, wcall, disk>>

\* the returned lazy array is computed: its node runs
Access ==
    /\ rcall.op = "file_reader"
    /\ rcall.res.returned[1].data.kind = "dask"
    /\ Len(accesses) < MaxAccess
    /\ accesses' = Append(accesses, Compute(disk, rcall.res.returned[1].data.node))
    /\ UNCHANGED <<scalebar_lib, caller_kwds, wcall, disk, rcall>>

ReaderIdle ==
    /\ rcall.op = "file_reader"
    /\ rcall' = NoCall
    /\ accesses' = <<>>
    /\ UNCHANGED <<scalebar_lib, caller_kwds, wcall, disk>>

InitWriter ==
    /\ scalebar_lib \in BOOLEAN
    /\ caller_kwds = CallerOptions
    /\ wcall = NoCall
    /\ disk = DefaultDisk
    /\ rcall = NoCall
    /\ accesses = <<>>

InitReader ==
    /\ scalebar_lib \in BOOLEAN
    /\ caller_kwds = CallerOptions
    /\ wcall = NoCall
    /\ disk \in DecodedArrays
    /\ rcall = NoCall
    /\ accesses = <<>>

NextWriter == FileWriter \/ WriterIdle

NextReader == FileReader \/ Access \/ ReaderIdle

SpecWriter == InitWriter /\ [][NextWriter]_vars

SpecReader == InitReader /\ [][NextReader]_vars

-----------------------------------------------------------------------------
(* Properties of file_writer, checked under SpecWriter *)

Written == wcall.op = "file_writer"

LibAvailable == scalebar_lib

SizeGiven == wcall.output_size.kind # "None"

\* imwrite called once with the pass-through options, the figure never exported
DirectWrite ==
    /\ wcall.res.imwrite = <<[filename |-> wcall.filename, kwds |-> wcall.kwds]>>
    /\ wcall.res.savefig = <<>>

\* imwrite never called; the figure exported once unless the call raised
RenderedWrite ==
    /\ wcall.res.imwrite = <<>>
    /\ Len(wcall.res.savefig) = (IF wcall.res.error = NoError THEN 1 ELSE 0)

Demoted ==
    /\ wcall.res.scalebar = FALSE
    /\ wcall.res.warnings = <<ScalebarWarning>>

\* C1 as stated: a direct write when scalebar is false and output_size is
\* None and whenever scalebar is true but the library is missing; a rendered
\* write when scalebar is true with the library or output_size is set.
C1_AsStated ==
    Written =>
        /\ (~wcall.scalebar /\ ~SizeGiven) => (DirectWrite /\ wcall.res.error = NoError)
        /\ (wcall.scalebar /\ ~LibAvailable) =>
               (DirectWrite /\ Demoted /\ wcall.res.error = NoError)
        /\ ((wcall.scalebar /\ LibAvailable) \/ SizeGiven) => RenderedWrite

\* C1 (amended): the write is direct exactly when output_size is None and
\* scalebar is false or the scale-bar library is missing; it is rendered when
\* scalebar is true with the library available or output_size is set, also
\* with the library missing.  A missing library demotes scalebar and logs a
\* warning in either mode and is never itself the reason for a failure.
C1_ModeSelection ==
    Written =>
        /\ (~SizeGiven /\ (~wcall.scalebar \/ ~LibAvailable)) =>
               (DirectWrite /\ wcall.res.error = NoError)
        /\ ((wcall.scalebar /\ LibAvailable) \/ SizeGiven) => RenderedWrite
        /\ (wcall.scalebar /\ ~LibAvailable) =>
               /\ Demoted
               /\ wcall.res.artists = <<>>
               /\ wcall.res.error \in {NoError, GeometryError, FormatSizeError}
        /\ (~wcall.scalebar \/ LibAvailable) => wcall.res.warnings = <<>>

\* a scale bar asked for without the library, with a size: the figure is exported
C1_Witness ==
    /\ Written /\ wcall.scalebar /\ ~LibAvailable /\ SizeGiven
    /\ Demoted /\ Len(wcall.res.savefig) = 1 /\ wcall.res.imwrite = <<>>

TwoSignalAxes == Len(wcall.signal.signal_axes) = 2
TwoNavigationAxes == Len(wcall.signal.navigation_axes) = 2

Rendering == (wcall.scalebar /\ LibAvailable) \/ SizeGiven

NothingExported == wcall.res.imwrite = <<>> /\ wcall.res.savefig = <<>>

\* C2: in a rendered write the axis pair is the signal axes when there are
\* exactly two, else the navigation axes when there are exactly two, else the
\* call fails with the geometry error and exports nothing.
C2_AxisPair ==
    (Written /\ Rendering) =>
        /\ TwoSignalAxes =>
              (wcall.res.axes = wcall.signal.signal_axes /\ wcall.res.error # GeometryError)
        /\ (~TwoSignalAxes /\ TwoNavigationAxes) =>
              (wcall.res.axes = wcall.signal.navigation_axes
               /\ wcall.res.error # GeometryError)
        /\ (~TwoSignalAxes /\ ~TwoNavigationAxes) =>
              (wcall.res.error = GeometryError /\ NothingExported)

\* both kinds number two and differ: the signal axes were used and exported
C2_Witness ==
    /\ Written /\ Rendering /\ TwoSignalAxes /\ TwoNavigationAxes
    /\ wcall.signal.signal_axes # wcall.signal.navigation_axes
    /\ wcall.res.axes = wcall.signal.signal_axes
    /\ Len(wcall.res.savefig) = 1

HasPair == TwoSignalAxes \/ TwoNavigationAxes

ChosenDiffer ==
    \/ wcall.res.axes[1].scale # wcall.res.axes[2].scale
    \/ wcall.res.axes[1].units # wcall.res.axes[2].units

\* the last piece of the file name is a rasterizer output type
ExtensionSupported ==
    /\ Len(wcall.filename) >= 3
    /\ wcall.filename[Len(wcall.filename) - 1] = "."
    /\ wcall.filename[Len(wcall.filename)] \in SupportedFiletypes

\* C3: with a scale bar requested (library available) and the chosen axes
\* differing in scale or units the call fails and exports nothing (with the
\* calibration error when the format is supported); equal axes never raise
\* it, and neither does a write without a scale bar.
C3_Mismatch ==
    Written =>
        /\ (wcall.scalebar /\ LibAvailable /\ HasPair /\ ChosenDiffer) =>
              /\ wcall.res.error # NoError
              /\ NothingExported
              /\ ExtensionSupported => wcall.res.error = CalibrationError
        /\ (Rendering /\ HasPair /\ ~ChosenDiffer) => wcall.res.error # CalibrationError
        /\ ~wcall.scalebar => wcall.res.error # CalibrationError

\* equal scales, different units, supported format: the calibration error
C3_Witness ==
    /\ Written /\ wcall.scalebar /\ LibAvailable /\ HasPair
    /\ wcall.res.axes[1].scale = wcall.res.axes[2].scale
    /\ wcall.res.axes[1].units # wcall.res.axes[2].units
    /\ wcall.res.error = CalibrationError

FormatErrors == {FormatScalebarError, FormatSizeError}

\* C4: with a valid axis pair and an extension the rasterizer does not
\* support, a scale bar (library available) or an output_size makes the call
\* fail with a format error and export nothing, while the same write with
\* neither succeeds directly; a supported extension never raises it.
C4_FormatGate ==
    (Written /\ HasPair) =>
        /\ (~ExtensionSupported /\ Rendering) =>
              (wcall.res.error \in FormatErrors /\ NothingExported)
        /\ (~ExtensionSupported /\ ~wcall.scalebar /\ ~SizeGiven) =>
              (wcall.res.error = NoError /\ DirectWrite)
        /\ ExtensionSupported => wcall.res.error \notin FormatErrors

\* an output_size alone on a .gif whose name also holds ".png"
C4_Witness ==
    /\ Written /\ HasPair /\ ~wcall.scalebar /\ SizeGiven
    /\ wcall.filename = <<"img", ".", "png", ".", "gif">>
    /\ wcall.res.error = FormatSizeError

BarDrawn == Written /\ Len(wcall.res.artists) = 1

\* the dimension the ScaleBar is built with ("si-length" is its default)
BarDimension == DictGet(wcall.res.artists[1].kwds, "dimension", "si-length")

\* C5 as stated: the dimension of a drawn scale bar is fixed by axis 0's
\* units alone: undefined -> "pixel-length" (units "px", no error), inverse
\* length -> "si-length-reciprocal", any other -> "si-length".
C5_DimensionByUnits ==
    BarDrawn =>
        LET units == wcall.res.axes[1].units
        IN /\ units = Undefined =>
                (BarDimension = "pixel-length" /\ wcall.res.artists[1].units = "px"
                 /\ wcall.res.error = NoError)
           /\ units \in ReciprocalLengthUnits => BarDimension = "si-length-reciprocal"
           /\ (units # Undefined /\ units \notin ReciprocalLengthUnits) =>
                BarDimension = "si-length"

\* the pixel dimensions output_size resolves to
ResolvedSize ==
    CASE wcall.output_size.kind = "None" ->
             <<wcall.res.axes[1].size, wcall.res.axes[2].size>>
      [] wcall.output_size.kind = "int" ->
             <<wcall.output_size.v[1], wcall.output_size.v[1]>>
      [] OTHER -> wcall.output_size.v

\* C6 as stated: the figure is exported at density 100 with exactly the
\* resolved pixel dimensions (the sizes of the chosen axes, (N, N), or the
\* pair given).
C6_ExactPixels ==
    (Written /\ Len(wcall.res.savefig) = 1) =>
        /\ wcall.res.savefig[1].dpi = 100
        /\ wcall.res.savefig[1].pixels = ResolvedSize

\* C10 as stated: a call leaves the caller's scalebar_kwds as it was, and
\* the scale bar it draws is the one the same call draws from the caller's
\* original options.
C10_CallsIndependent ==
    /\ caller_kwds = CallerOptions
    /\ Written =>
          wcall.res.artists =
              file_writer(wcall.filename, wcall.signal, wcall.scalebar,
                          IF wcall.scalebar_kwds.kind = "None" THEN NoKwds
                          ELSE TheDict(CallerOptions),
                          wcall.output_size, wcall.kwds, scalebar_lib).artists

-----------------------------------------------------------------------------
(* Properties of file_reader, checked under SpecReader *)

Read == rcall.op = "file_reader"

Returned == rcall.res.returned[1].data

LazyAsked == <<"lazy", "True">> \in rcall.kwds

\* C7 as stated: the codec is called with the options of the read call
\* other than `lazy`.
C7_PassThrough ==
    Read =>
        \A i \in 1..Len(rcall.res.imread) :
            rcall.res.imread[i].kwds = {p \in rcall.kwds : p[1] # "lazy"}

\* one decode of the file being read, with no codec options
TheDecode == <<[filename |-> rcall.filename, kwds |-> {}]>>

\* C8: a lazy read decodes once during the call, only for shape and dtype,
\* and returns one deferred node declared with them; the node is the same
\* decode (same function, file and codec arguments) and runs once per later
\* access, never during the call.  An eager read decodes once and returns
\* the decoded array itself.
C8_LazyRead ==
    Read =>
        /\ Len(rcall.res.returned) = 1
        /\ Len(rcall.res.imread) = 1
        /\ rcall.res.imread = TheDecode
        /\ Returned.shape = Collapse(disk).shape
        /\ Returned.dtype = Collapse(disk).dtype
        /\ LazyAsked =>
              /\ Returned.kind = "dask"
              /\ Returned.array = NoArray
              /\ Returned.node.func = "_read_data"
              /\ Returned.node.filename = rcall.filename
              /\ \A i \in 1..Len(accesses) :
                    /\ accesses[i].imread = rcall.res.imread
                    /\ accesses[i].dc.shape = Returned.shape
                    /\ accesses[i].dc.dtype = Returned.dtype
        /\ ~LazyAsked =>
              /\ Returned.kind = "ndarray"
              /\ Returned.node = NoNode
              /\ Returned.array = Collapse(disk)
              /\ accesses = <<>>

\* a lazy read with other options whose node has run after the call
C8_Witness ==
    /\ Read /\ LazyAsked /\ Cardinality(rcall.kwds) > 1
    /\ Len(rcall.res.imread) = 1
    /\ Len(accesses) = MaxAccess

\* every array a decode of the file produced: the eager result, the node's
DecodeResults ==
    (IF Read /\ Returned.kind = "ndarray" THEN {Returned.array} ELSE {})
    \cup {accesses[i].dc : i \in 1..Len(accesses)}

Pixels(a) == 1..(a.shape[1] * a.shape[2])

\* sample c (from 0) of pixel p of the decoded file
Sample(p, c) == disk.elems[(p - 1) * disk.shape[3] + c + 1]

Channel1Is2 == \A p \in Pixels(disk) : Sample(p, 1) = Sample(p, 2)

====
